---- MODULE Spec2Model ----
(***************************************************************************)
(* Model of the bengali-morehopqa translation scripts:                     *)
(*   src/some_testings/translate_to_bn.py     (first script)               *)
(*   src/some_testings/translate_to_bn_v2.py  (retry + checkpoints)        *)
(*   src/some_testings/translate_to_bn_v3.py  (retry + checkpoints)        *)
(*   src/some_testings/translate_v4.py        (key-driven record mapper)   *)
(* The specifications share the variables:                                 *)
(*   SpecT  the field translator (translate_text and its variants),        *)
(*   SpecC  translate_text of v2/v3 under a configured MAX_RETRIES,        *)
(*   SpecM  the record mappers,                                            *)
(*   SpecP  the preprocessing of download_dataset,                         *)
(*   Spec   the drivers of v2, v3 and v4 with the checkpoint directory,    *)
(*          process kills and restarts,                                    *)
(*   SpecLive  one run of a driver without environment failures.           *)
(***************************************************************************)
EXTENDS Integers, Sequences, FiniteSets, TLC

VARIABLES
    \* ---- field translator (SpecT)
    t_pc,        \* "idle" | "ready" | "done"
    t_variant,   \* which script's translate function was applied
    t_text,      \* the argument
    t_outcomes,  \* what the service does on the 1st, 2nd, ... call
    t_res,       \* [ret, events] of the call
    t_max_retries, \* the value the module constant MAX_RETRIES is set to
    \* ---- record mappers (SpecM)
    m_pc,        \* "idle" | "ready" | "done"
    m_variant,   \* which script's mapper was applied
    m_item,      \* the input record, a function from keys to Python values
    m_pat,       \* how the service behaves during the mapping
    m_res,       \* [err, val, called] of the mapping
    \* ---- driver translate_and_push_dataset of v2/v3 (Spec)
    script,          \* "v2" | "v3" | "v4": which script is run
    source,          \* the JSON array the dataset store holds
    svc,             \* "up" | "down" | "flaky": how the service behaves
    pc,              \* "idle" | "start" | "running" | "completed" | "failed" | "killed"
                     \* ("loaded" in SpecP: download_dataset has returned)
    dataset,         \* the local variable dataset
    translated_data, \* the local variable translated_data
    idx,             \* number of loop iterations begun and appended
    store,           \* the files of the directory checkpoints/
    clock,           \* datetime.now(), in seconds
    run,             \* how many times the process was started
    hub,             \* the collections pushed to the hub, in order
    saveLog,         \* checkpoint_num of every save_checkpoint call of this run
    mapped,          \* positions of the records mapped in this run, in order
    resumeFrom       \* greatest complete checkpoint on disk when this run began

tvars == <<t_pc, t_variant, t_text, t_outcomes, t_res, t_max_retries>>

mvars == <<m_pc, m_variant, m_item, m_pat, m_res>>

dvars == <<script, source, svc, pc, dataset, translated_data, idx, store, clock,
           run, hub, saveLog, mapped, resumeFrom>>

vars == <<t_pc, t_variant, t_text, t_outcomes, t_res, t_max_retries,
          m_pc, m_variant, m_item, m_pat, m_res,
          script, source, svc, pc, dataset, translated_data, idx, store, clock,
          run, hub, saveLog, mapped, resumeFrom>>

-----------------------------------------------------------------------------
(* Python values.  kind is compared first, so values of different kinds    *)
(* are unequal without their payloads being compared.                      *)

PyStr(s) == [kind |-> "str", val |-> s]

PyNone == [kind |-> "none", val |-> ""]

PyInt(n) == [kind |-> "int", val |-> n]

PyList(s) == [kind |-> "list", val |-> s]

PyDict(f) == [kind |-> "dict", val |-> f]

\* an exception leaving the function instead of a return value
PyRaise(e) == [kind |-> "raise", val |-> e]

\* v[:50] is defined for strings and lists; anything else raises TypeError
Sliceable(v) == v.kind \in {"str", "list"}

\* Python truthiness: `not v`
Falsy(v) ==
    \/ v.kind = "none"
    \/ v.kind = "str" /\ v.val = ""
    \/ v.kind = "int" /\ v.val = 0
    \/ v.kind = "list" /\ v.val = <<>>
    \/ v.kind = "dict" /\ DOMAIN v.val = {}

-----------------------------------------------------------------------------
(* The part of the state a specification does not use stays idle.          *)

\* the result of a call of a translate function
NoRes == [ret |-> PyNone, events |-> <<>>]

\* the result of an evaluation inside a mapper
Ev(err, val, called) == [err |-> err, val |-> val, called |-> called]

NoMap == Ev("", <<>>, {})

IdleT ==
    /\ t_pc = "idle"
    /\ t_variant = "none"
    /\ t_text = PyNone
    /\ t_outcomes = <<>>
    /\ t_res = NoRes
    /\ t_max_retries = 0

IdleM ==
    /\ m_pc = "idle"
    /\ m_variant = "none"
    /\ m_item = <<>>
    /\ m_pat = <<TRUE>>
    /\ m_res = NoMap

IdleD ==
    /\ script = "v3"
    /\ source = <<>>
    /\ svc = "up"
    /\ pc = "idle"
    /\ dataset = <<>>
    /\ translated_data = <<>>
    /\ idx = 0
    /\ store = {}
    /\ clock = 0
    /\ run = 0
    /\ hub = <<>>
    /\ saveLog = <<>>
    /\ mapped = <<>>
    /\ resumeFrom = 0

-----------------------------------------------------------------------------
(* The translation service (googletrans, external).  One call either       *)
(* raises or returns an object whose .text is a string.                    *)

Fail == [ok |-> FALSE, text |-> ""]

Ok(s) == [ok |-> TRUE, text |-> s]

MAX_RETRIES == 3

\* retry_loop with the first failure treated as final: no second attempt
retry_loop_giveup(text, outcomes, attempt, ev) ==
    IF outcomes[attempt + 1].ok
    THEN [ret |-> PyStr(outcomes[attempt + 1].text),
          events |-> ev \o <<"call_ok", "rate_limit_sleep">>]
    ELSE [ret |-> text, events |-> ev \o <<"call_fail", "warning">>]

\* retry_loop with the last-attempt test off by one (attempt == MAX_RETRIES):
\* the fallback is never taken and the loop falls through
RECURSIVE retry_loop_nofallback(_, _, _, _)
retry_loop_nofallback(text, outcomes, attempt, ev) ==
    IF attempt >= MAX_RETRIES
    THEN [ret |-> PyNone, events |-> ev]
    ELSE IF outcomes[attempt + 1].ok
         THEN [ret |-> PyStr(outcomes[attempt + 1].text),
               events |-> ev \o <<"call_ok", "rate_limit_sleep">>]
         ELSE retry_loop_nofallback(text, outcomes, attempt + 1,
                                    ev \o <<"call_fail", "retry_sleep">>)

\* retry_loop whose except branch of the last attempt raises again instead
\* of returning text
RECURSIVE retry_loop_reraise(_, _, _, _)
retry_loop_reraise(text, outcomes, attempt, ev) ==
    IF attempt >= MAX_RETRIES
    THEN [ret |-> PyNone, events |-> ev]
    ELSE IF outcomes[attempt + 1].ok
         THEN [ret |-> PyStr(outcomes[attempt + 1].text),
               events |-> ev \o <<"call_ok", "rate_limit_sleep">>]
         ELSE IF attempt = MAX_RETRIES - 1
              THEN [ret |-> PyRaise("Exception"), events |-> ev \o <<"call_fail">>]
              ELSE retry_loop_reraise(text, outcomes, attempt + 1,
                                      ev \o <<"call_fail", "retry_sleep">>)

\* retry_loop that sleeps RETRY_DELAY after every failed attempt, the last
\* one included
RECURSIVE retry_loop_sleeplast(_, _, _, _)
retry_loop_sleeplast(text, outcomes, attempt, ev) ==
    IF attempt >= MAX_RETRIES
    THEN [ret |-> PyNone, events |-> ev]
    ELSE IF outcomes[attempt + 1].ok
         THEN [ret |-> PyStr(outcomes[attempt + 1].text),
               events |-> ev \o <<"call_ok", "rate_limit_sleep">>]
         ELSE IF attempt = MAX_RETRIES - 1
              THEN [ret |-> text, events |-> ev \o <<"call_fail", "retry_sleep", "warning">>]
              ELSE retry_loop_sleeplast(text, outcomes, attempt + 1,
                                        ev \o <<"call_fail", "retry_sleep">>)

\* for attempt in range(MAX_RETRIES): try ... except ...   (v2 and v3)
\* attempt counts from 0; outcomes[attempt + 1] is what the service does on
\* that call.  Falling out of the loop returns None.  The except branch of
\* the last attempt logs text[:50] before it returns text.
RECURSIVE retry_loop(_, _, _, _)
retry_loop(text, outcomes, attempt, ev) ==
    IF attempt >= MAX_RETRIES
    THEN [ret |-> PyNone, events |-> ev]
    ELSE IF outcomes[attempt + 1].ok
         THEN [ret |-> PyStr(outcomes[attempt + 1].text),
               events |-> ev \o <<"call_ok", "rate_limit_sleep">>]
         ELSE IF attempt = MAX_RETRIES - 1
              THEN IF Sliceable(text)
                   THEN [ret |-> text, events |-> ev \o <<"call_fail", "warning">>]
                   ELSE [ret |-> PyRaise("TypeError"), events |-> ev \o <<"call_fail">>]
              ELSE retry_loop(text, outcomes, attempt + 1,
                              ev \o <<"call_fail", "retry_sleep">>)

\* DatasetTranslator.translate_text of v3 (v2 is the same code)
translate_text(text, outcomes) ==
    IF Falsy(text)
    THEN [ret |-> PyStr(""), events |-> <<>>]
    ELSE retry_loop(text, outcomes, 0, <<>>)

\* the for loop of translate_text with the module constant MAX_RETRIES set
\* to max_retries: range(max_retries) yields nothing when it is 0, and the
\* function then ends without a return statement
RECURSIVE retry_loop_with(_, _, _, _, _)
retry_loop_with(max_retries, text, outcomes, attempt, ev) ==
    IF attempt >= max_retries
    THEN [ret |-> PyNone, events |-> ev]
    ELSE IF outcomes[attempt + 1].ok
         THEN [ret |-> PyStr(outcomes[attempt + 1].text),
               events |-> ev \o <<"call_ok", "rate_limit_sleep">>]
         ELSE IF attempt = max_retries - 1
              THEN IF Sliceable(text)
                   THEN [ret |-> text, events |-> ev \o <<"call_fail", "warning">>]
                   ELSE [ret |-> PyRaise("TypeError"), events |-> ev \o <<"call_fail">>]
              ELSE retry_loop_with(max_retries, text, outcomes, attempt + 1,
                                   ev \o <<"call_fail", "retry_sleep">>)

\* translate_text of v2/v3 with MAX_RETRIES set to max_retries
translate_text_with(max_retries, text, outcomes) ==
    IF Falsy(text)
    THEN [ret |-> PyStr(""), events |-> <<>>]
    ELSE retry_loop_with(max_retries, text, outcomes, 0, <<>>)

\* DatasetTranslator.translate_text of translate_v4.py: one call, no guard
translate_text_v4(text, outcomes) ==
    IF outcomes[1].ok
    THEN [ret |-> PyStr(outcomes[1].text), events |-> <<"call_ok">>]
    ELSE [ret |-> text, events |-> <<"call_fail", "error_log">>]

\* BengaliDatasetTranslator.translate_to_bengali: one call, bare except
translate_to_bengali(text, outcomes) ==
    IF outcomes[1].ok
    THEN [ret |-> PyStr(outcomes[1].text), events |-> <<"call_ok">>]
    ELSE [ret |-> text, events |-> <<"call_fail">>]

\* number of service invocations in an event list
RECURSIVE Calls(_)
Calls(ev) ==
    IF ev = <<>> THEN 0
    ELSE (IF Head(ev) \in {"call_ok", "call_fail"} THEN 1 ELSE 0) + Calls(Tail(ev))

-----------------------------------------------------------------------------
(* SpecT: the field translator applied to one argument.                    *)

ServiceTexts == {"r1", "r2"}

Outcomes == {Fail} \cup {Ok(s) : s \in ServiceTexts}

TextArgs == {PyStr(""), PyNone, PyInt(0), PyStr("a"), PyStr("b"), PyInt(7)}

InitT ==
    /\ IdleM
    /\ IdleD
    /\ t_pc = "ready"
    /\ t_variant = "none"
    /\ t_text \in TextArgs
    /\ t_outcomes \in [1..MAX_RETRIES -> Outcomes]
    /\ t_res = NoRes
    /\ t_max_retries = MAX_RETRIES

CallV3 ==
    /\ t_pc = "ready"
    /\ t_pc' = "done"
    /\ t_variant' = "v3"
    /\ t_res' = translate_text(t_text, t_outcomes)
    /\ UNCHANGED <<t_text, t_outcomes, t_max_retries>>
    /\ UNCHANGED <<mvars, dvars>>

CallV2 ==
    /\ t_pc = "ready"
    /\ t_pc' = "done"
    /\ t_variant' = "v2"
    /\ t_res' = translate_text(t_text, t_outcomes)
    /\ UNCHANGED <<t_text, t_outcomes, t_max_retries>>
    /\ UNCHANGED <<mvars, dvars>>

CallV4 ==
    /\ t_pc = "ready"
    /\ t_pc' = "done"
    /\ t_variant' = "v4"
    /\ t_res' = translate_text_v4(t_text, t_outcomes)
    /\ UNCHANGED <<t_text, t_outcomes, t_max_retries>>
    /\ UNCHANGED <<mvars, dvars>>

CallBn ==
    /\ t_pc = "ready"
    /\ t_pc' = "done"
    /\ t_variant' = "bn"
    /\ t_res' = translate_to_bengali(t_text, t_outcomes)
    /\ UNCHANGED <<t_text, t_outcomes, t_max_retries>>
    /\ UNCHANGED <<mvars, dvars>>

NextT == CallV3 \/ CallV2 \/ CallV4 \/ CallBn

SpecT == InitT /\ [][NextT]_vars

\* the argument is a non-empty text
NonEmptyText(v) == v.kind = "str" /\ v.val # ""

\* the service fails on the first k calls and succeeds on call k + 1
FailsThenSucceeds(outcomes, k) ==
    /\ \A j \in 1..k : ~outcomes[j].ok
    /\ outcomes[k + 1].ok

\* C3: for every empty or falsy argument (empty string, None) the translate
\* function of every script returns "" and calls the service zero times.
\* translate_v4.py and translate_to_bn.py have no such guard.
C3_FalsyReturnsEmptyWithoutCall ==
    (t_pc = "done" /\ Falsy(t_text))
        => (t_res.ret = PyStr("") /\ Calls(t_res.events) = 0)

\* C4: translate_text of v2/v3 on a non-empty text, the service failing on
\* the first k < MAX_RETRIES calls and succeeding on call k + 1: the value
\* returned is the text of that call.
C4_ReturnsFirstSuccess ==
    (t_pc = "done" /\ t_variant \in {"v2", "v3"} /\ NonEmptyText(t_text))
        => \A k \in 0..(MAX_RETRIES - 1) :
              FailsThenSucceeds(t_outcomes, k)
                  => t_res.ret = PyStr(t_outcomes[k + 1].text)

C4_Witness ==
    /\ t_pc = "done"
    /\ t_variant = "v3"
    /\ t_text = PyStr("a")
    /\ t_outcomes = <<Fail, Ok("r1"), Ok("r2")>>
    /\ t_res.ret = PyStr("r1")
    /\ Calls(t_res.events) = 2

\* C5: translate_text of v2/v3 and of v4 on a non-empty text, every call of
\* the service failing: the function returns its argument and raises nothing.
C5_AllFailReturnsOriginal ==
    (/\ t_pc = "done"
     /\ t_variant \in {"v2", "v3", "v4"}
     /\ NonEmptyText(t_text)
     /\ \A j \in 1..MAX_RETRIES : ~t_outcomes[j].ok)
        => (t_res.ret = t_text /\ t_res.ret.kind # "raise")

C5_Witness ==
    /\ t_pc = "done"
    /\ t_variant = "v3"
    /\ t_text = PyStr("b")
    /\ t_outcomes = <<Fail, Fail, Fail>>
    /\ t_res.ret = PyStr("b")
    /\ Calls(t_res.events) = MAX_RETRIES

\* the events that are invocations of the service
IsCall(e) == e \in {"call_ok", "call_fail"}

\* C21: in one call of translate_text of v2/v3 on a non-empty text the
\* service is invoked at most MAX_RETRIES times and not again after an
\* invocation that returned; a RETRY_DELAY sleep follows a failed invocation
\* exactly when it was not the MAX_RETRIES-th, and every such sleep stands
\* between a failed invocation and the next invocation; a RATE_LIMIT_DELAY
\* sleep happens once when an invocation returned, right after it and as the
\* last event before the return, and not at all when every invocation failed.
C21_AttemptsAndWaits ==
    (t_pc = "done" /\ t_variant \in {"v2", "v3"} /\ NonEmptyText(t_text))
        => /\ Calls(t_res.events) <= MAX_RETRIES
           /\ \A i \in DOMAIN t_res.events :
                 t_res.events[i] = "call_ok"
                     => \A j \in DOMAIN t_res.events : j > i => ~IsCall(t_res.events[j])
           /\ \A i \in DOMAIN t_res.events :
                 t_res.events[i] = "call_fail"
                     => (Calls(SubSeq(t_res.events, 1, i)) < MAX_RETRIES
                            <=> (i < Len(t_res.events) /\ t_res.events[i + 1] = "retry_sleep"))
           /\ \A i \in DOMAIN t_res.events :
                 t_res.events[i] = "retry_sleep"
                     => /\ i > 1 /\ t_res.events[i - 1] = "call_fail"
                        /\ i < Len(t_res.events) /\ IsCall(t_res.events[i + 1])
           /\ \A i \in DOMAIN t_res.events :
                 t_res.events[i] = "rate_limit_sleep"
                     => /\ i = Len(t_res.events)
                        /\ i > 1 /\ t_res.events[i - 1] = "call_ok"
           /\ Cardinality({i \in DOMAIN t_res.events : t_res.events[i] = "rate_limit_sleep"})
                 = (IF \E i \in DOMAIN t_res.events : t_res.events[i] = "call_ok"
                    THEN 1 ELSE 0)

C21_Witness ==
    /\ t_pc = "done"
    /\ t_variant = "v2"
    /\ t_text = PyStr("a")
    /\ t_outcomes = <<Fail, Fail, Ok("r2")>>
    /\ t_res.events = <<"call_fail", "retry_sleep", "call_fail", "retry_sleep",
                        "call_ok", "rate_limit_sleep">>

-----------------------------------------------------------------------------
(* SpecC: translate_text of v2/v3 with the module constant MAX_RETRIES set *)
(* to any value from 0 to MaxConfigured.                                   *)

MaxConfigured == 3

InitC ==
    /\ IdleM
    /\ IdleD
    /\ t_pc = "ready"
    /\ t_variant = "none"
    /\ t_text \in TextArgs
    /\ t_max_retries \in 0..MaxConfigured
    /\ t_outcomes \in [1..t_max_retries -> Outcomes]
    /\ t_res = NoRes

CallConfiguredV3 ==
    /\ t_pc = "ready"
    /\ t_pc' = "done"
    /\ t_variant' = "v3"
    /\ t_res' = translate_text_with(t_max_retries, t_text, t_outcomes)
    /\ UNCHANGED <<t_text, t_outcomes, t_max_retries>>
    /\ UNCHANGED <<mvars, dvars>>

CallConfiguredV2 ==
    /\ t_pc = "ready"
    /\ t_pc' = "done"
    /\ t_variant' = "v2"
    /\ t_res' = translate_text_with(t_max_retries, t_text, t_outcomes)
    /\ UNCHANGED <<t_text, t_outcomes, t_max_retries>>
    /\ UNCHANGED <<mvars, dvars>>

NextC == CallConfiguredV3 \/ CallConfiguredV2

SpecC == InitC /\ [][NextC]_vars

\* C24: whatever value of at least 0 MAX_RETRIES is set to, translate_text of
\* v2/v3 on a non-empty text returns a text: the text of an invocation of
\* the service that returned, or its argument; never None.  With MAX_RETRIES
\* = 0 the loop body is not entered and the function ends without a return
\* statement.
C24_NeverReturnsNone ==
    (t_pc = "done" /\ NonEmptyText(t_text))
        => /\ t_res.ret.kind = "str"
           /\ \/ t_res.ret = t_text
              \/ \E j \in 1..t_max_retries :
                    t_outcomes[j].ok /\ t_res.ret = PyStr(t_outcomes[j].text)

-----------------------------------------------------------------------------
(* The service during one mapping.  A leaf of the record is named by its   *)
(* path <<top-level key, position, sub-key>>.  pat, repeated cyclically,   *)
(* tells which calls succeed; the calls made for the leaf at a path are    *)
(* the calls PathPos(path) + 1, PathPos(path) + 2, ... of it.  A           *)
(* successful call on text s returns Bn(s): the stub is deterministic in   *)
(* its argument.                                                           *)

Bn(v) == IF v.kind = "str" THEN "bn:" \o v.val ELSE "bn:" \o v.kind

Patterns ==
    { <<TRUE>>, <<FALSE>>, <<FALSE, TRUE>>,
      <<TRUE, FALSE, FALSE, FALSE>>, <<FALSE, FALSE, FALSE, TRUE>> }

SvcOk(pat, n) == pat[((n - 1) % Len(pat)) + 1]

\* the order in which item.items() yields the keys of a source record
KeyOrder ==
    <<"question", "answer", "context", "previous_question", "previous_answer",
      "question_decomposition", "question_on_last_hop", "answer_type",
      "previous_answer_type", "no_of_hops", "reasoning_type", "extra">>

SubOrder == <<"sub_id", "question", "answer", "paragraph_support_title">>

Index(order, k) == CHOOSE i \in DOMAIN order : order[i] = k

PathPos(path) ==
    (Index(KeyOrder, path[1]) - 1) + path[2]
        + (IF path[3] \in {"question", "answer", "paragraph_support_title"}
           THEN Index(SubOrder, path[3]) - 1 ELSE 0)

\* the outcomes of the calls made for the leaf at path
OutcomesAt(pat, path, text) ==
    [i \in 1..MAX_RETRIES |->
        IF SvcOk(pat, PathPos(path) + i) THEN Ok(Bn(text)) ELSE Fail]

\* self.translate_text / self.translate_to_bengali of the script
Translate(variant, text, outcomes) ==
    CASE variant \in {"v2", "v3"} -> translate_text(text, outcomes)
      [] variant = "v4" -> translate_text_v4(text, outcomes)
      [] variant = "bn" -> translate_to_bengali(text, outcomes)

(* An evaluation yields [err, val, called]: the exception that left it ("" *)
(* if none), its value, and the paths on which it invoked the service.     *)

\* one call of the translate function on the leaf at path
EvText(variant, text, pat, path) ==
    LET r == Translate(variant, text, OutcomesAt(pat, path, text))
    IN  Ev(IF r.ret.kind = "raise" THEN r.ret.val ELSE "",
           r.ret,
           IF Calls(r.events) > 0 THEN {path} ELSE {})

(* Evaluations made one after the other: steps[i] is what the i-th yields  *)
(* if it is reached; the first that raises ends the sequence.              *)

\* the position of the first step that raises, 0 if none does
FirstRaise(steps) ==
    IF \E i \in DOMAIN steps : steps[i].err # ""
    THEN CHOOSE i \in DOMAIN steps :
             /\ steps[i].err # ""
             /\ \A j \in DOMAIN steps : steps[j].err # "" => i <= j
    ELSE 0

\* the number of steps that returned
Returned(steps) ==
    IF FirstRaise(steps) = 0 THEN Len(steps) ELSE FirstRaise(steps) - 1

\* the exception leaving the sequence
Raised(steps) ==
    IF FirstRaise(steps) = 0 THEN "" ELSE steps[FirstRaise(steps)].err

\* the service invocations of the steps that were reached
CalledBy(steps) ==
    UNION {steps[i].called :
              i \in {j \in DOMAIN steps : FirstRaise(steps) = 0 \/ j <= FirstRaise(steps)}}

\* a dict built entry by entry: order[i] |-> steps[i].val
DictOf(order, steps) ==
    [k \in {order[i] : i \in 1..Returned(steps)} |-> steps[Index(order, k)].val]

\* translated_item = {"sub_id": item["sub_id"], "question": ..., ...} for the
\* j-th item of the decomposition list
ItemSteps(variant, d, pat, j) ==
    [i \in 1..Len(SubOrder) |->
        IF d.kind # "dict" THEN Ev("TypeError", PyNone, {})
        ELSE IF SubOrder[i] \notin DOMAIN d.val THEN Ev("KeyError", PyNone, {})
        ELSE IF SubOrder[i] = "sub_id" THEN Ev("", d.val["sub_id"], {})
        ELSE EvText(variant, d.val[SubOrder[i]], pat,
                    <<"question_decomposition", j, SubOrder[i]>>)]

EvItem(variant, d, pat, j) ==
    Ev(Raised(ItemSteps(variant, d, pat, j)),
       PyDict(DictOf(SubOrder, ItemSteps(variant, d, pat, j))),
       CalledBy(ItemSteps(variant, d, pat, j)))

\* DecompSteps walking decomp_list from its end: reversed(decomp_list)
DecompSteps_reversed(variant, items, pat) ==
    [j \in 1..Len(items) |-> EvItem(variant, items[Len(items) + 1 - j], pat, j)]

\* for item in decomp_list: ... translated_decomp.append(translated_item)
DecompSteps(variant, items, pat) ==
    [j \in 1..Len(items) |-> EvItem(variant, items[j], pat, j)]

\* translate_question_decomposition of v2/v3 (guarded by `if not decomp_list`),
\* of v4 and translate_decomposition of the first script (unguarded)
translate_question_decomposition(variant, decomp_list, pat) ==
    IF variant \in {"v2", "v3"} /\ Falsy(decomp_list)
    THEN Ev("", PyList(<<>>), {})
    ELSE IF decomp_list.kind # "list"
         THEN Ev("TypeError", PyNone, {})
         ELSE Ev(Raised(DecompSteps(variant, decomp_list.val, pat)),
                 PyList([j \in 1..Returned(DecompSteps(variant, decomp_list.val, pat)) |->
                            DecompSteps(variant, decomp_list.val, pat)[j].val]),
                 CalledBy(DecompSteps(variant, decomp_list.val, pat)))

\* translate_list of v4: [self.translate_text(item) for item in items]
ListSteps(items, pat) ==
    [p \in 1..Len(items) |-> EvText("v4", items[p], pat, <<"context", p, "paragraphs">>)]

translate_list(items, pat) ==
    IF items.kind # "list" THEN Ev("TypeError", PyNone, {})
    ELSE Ev(Raised(ListSteps(items.val, pat)),
            PyList([p \in 1..Returned(ListSteps(items.val, pat)) |->
                       ListSteps(items.val, pat)[p].val]),
            CalledBy(ListSteps(items.val, pat)))

\* translate_context of v4: {'title': ..., 'paragraphs': ...}
ContextOrder == <<"title", "paragraphs">>

ContextSteps(context, pat) ==
    [i \in 1..Len(ContextOrder) |->
        IF context.kind # "dict" THEN Ev("TypeError", PyNone, {})
        ELSE IF ContextOrder[i] \notin DOMAIN context.val THEN Ev("KeyError", PyNone, {})
        ELSE IF ContextOrder[i] = "title"
             THEN EvText("v4", context.val["title"], pat, <<"context", 0, "title">>)
             ELSE translate_list(context.val["paragraphs"], pat)]

translate_context(context, pat) ==
    Ev(Raised(ContextSteps(context, pat)),
       PyDict(DictOf(ContextOrder, ContextSteps(context, pat))),
       CalledBy(ContextSteps(context, pat)))

ScalarText ==
    {"question", "answer", "context", "previous_question", "previous_answer",
     "question_on_last_hop"}

Metadata == {"answer_type", "previous_answer_type", "no_of_hops", "reasoning_type"}

\* the keys of the dict literal of v2/v3, in evaluation order
FieldOrderV3 ==
    <<"question", "answer", "context", "previous_question", "previous_answer",
      "question_decomposition", "question_on_last_hop", "answer_type",
      "previous_answer_type", "no_of_hops", "reasoning_type">>

\* the keys of the dict literal of the first script: question_on_last_hop is
\* commented out
FieldOrderBn ==
    <<"question", "answer", "context", "previous_question", "previous_answer",
      "question_decomposition", "answer_type", "previous_answer_type",
      "no_of_hops", "reasoning_type">>

\* LiteralSteps reading the record with item.get(key): a missing key yields
\* None and nothing is raised
LiteralSteps_get(variant, order, item, pat) ==
    [i \in 1..Len(order) |->
        IF order[i] \notin DOMAIN item THEN Ev("", PyNone, {})
        ELSE IF order[i] \in ScalarText
             THEN EvText(variant, item[order[i]], pat, <<order[i], 0, "">>)
        ELSE IF order[i] = "question_decomposition"
             THEN translate_question_decomposition(variant, item[order[i]], pat)
        ELSE Ev("", item[order[i]], {})]

\* the dict literal {"question": self.translate_text(item["question"]), ...}
\* evaluated entry by entry; the first missing key raises KeyError
LiteralSteps(variant, order, item, pat) ==
    [i \in 1..Len(order) |->
        IF order[i] \notin DOMAIN item THEN Ev("KeyError", PyNone, {})
        ELSE IF order[i] \in ScalarText
             THEN EvText(variant, item[order[i]], pat, <<order[i], 0, "">>)
        ELSE IF order[i] = "question_decomposition"
             THEN translate_question_decomposition(variant, item[order[i]], pat)
        ELSE Ev("", item[order[i]], {})]

EvLiteral(variant, order, item, pat) ==
    Ev(Raised(LiteralSteps(variant, order, item, pat)),
       DictOf(order, LiteralSteps(variant, order, item, pat)),
       CalledBy(LiteralSteps(variant, order, item, pat)))

\* translated_item of translate_and_push_dataset (v3; v2 is the same code)
translated_item(item, pat) == EvLiteral("v3", FieldOrderV3, item, pat)

\* translated_item of translate_dataset (first script)
translated_item_bn(item, pat) == EvLiteral("bn", FieldOrderBn, item, pat)

\* the keys item.items() yields
ItemKeys(item) == SelectSeq(KeyOrder, LAMBDA k : k \in DOMAIN item)

\* for key, value in item.items(): dispatch on key, then on isinstance(value, str)
LoopSteps(item, pat) ==
    [i \in 1..Len(ItemKeys(item)) |->
        IF ItemKeys(item)[i] = "question_decomposition"
        THEN translate_question_decomposition("v4", item[ItemKeys(item)[i]], pat)
        ELSE IF ItemKeys(item)[i] = "context"
        THEN translate_context(item[ItemKeys(item)[i]], pat)
        ELSE IF item[ItemKeys(item)[i]].kind = "str"
        THEN EvText("v4", item[ItemKeys(item)[i]], pat, <<ItemKeys(item)[i], 0, "">>)
        ELSE Ev("", item[ItemKeys(item)[i]], {})]

\* translate_item of translate_v4.py
translate_item(item, pat) ==
    Ev(Raised(LoopSteps(item, pat)),
       DictOf(ItemKeys(item), LoopSteps(item, pat)),
       CalledBy(LoopSteps(item, pat)))

\* the mapper of a script applied to one record
MapperOf(variant, item, pat) ==
    CASE variant = "v4" -> translate_item(item, pat)
      [] variant = "bn" -> translated_item_bn(item, pat)
      [] OTHER -> translated_item(item, pat)

\* ItemAfter of a mapper that stores each result under the key it read:
\* item[key] = self.translate_text(item[key])
ItemAfter_inplace(variant, item, pat) ==
    [k \in DOMAIN item |->
        IF k \in DOMAIN MapperOf(variant, item, pat).val
        THEN MapperOf(variant, item, pat).val[k]
        ELSE item[k]]

\* the object the caller passed, once the mapper has returned or raised.
\* Every store of the mappers has a new object as its target: translated_item
\* = {} and translated_item[key] = ..., translated_decomp = [] and
\* translated_decomp.append(...), the dict literals and the list
\* comprehension; item, value, context and decomp_list are only read.
ItemAfter(variant, item, pat) == item

-----------------------------------------------------------------------------
(* SpecM: one record mapped by one script's mapper.                        *)

Decomp1 ==
    PyList(<< PyDict([k \in {"sub_id", "question", "answer", "paragraph_support_title"} |->
                 CASE k = "sub_id" -> PyStr("q1")
                   [] k = "question" -> PyStr("X")
                   [] k = "answer" -> PyStr("Y")
                   [] OTHER -> PyStr("Z")]) >>)

Context1 ==
    PyDict([k \in {"title", "paragraphs"} |->
              IF k = "title" THEN PyStr("T") ELSE PyList(<<PyStr("p1"), PyStr("p2")>>)])

\* two sub-questions, the second with an absent title
Decomp2 ==
    PyList(<< Decomp1.val[1],
              PyDict([k \in {"sub_id", "question", "answer", "paragraph_support_title"} |->
                 CASE k = "sub_id" -> PyStr("q2")
                   [] k = "question" -> PyStr("X2")
                   [] k = "answer" -> PyStr("Y2")
                   [] OTHER -> PyNone]) >>)

\* a record of the schema as v2/v3 and the first script see it: context is
\* one string
RecText ==
    [k \in ScalarText \cup Metadata \cup {"question_decomposition"} |->
        CASE k = "question" -> PyStr("Who is king?")
          [] k = "answer" -> PyStr("Bob")
          [] k = "context" -> PyStr("ctx")
          [] k = "previous_question" -> PyStr("")
          [] k = "previous_answer" -> PyNone
          [] k = "question_on_last_hop" -> PyStr("hop")
          [] k = "question_decomposition" -> Decomp1
          [] k = "no_of_hops" -> PyInt(2)
          [] k = "answer_type" -> PyStr("person")
          [] k = "previous_answer_type" -> PyNone
          [] OTHER -> PyStr("Commonsense")]

\* the same record as translate_v4.py sees it: context is {title, paragraphs}
RecNested == [RecText EXCEPT !["context"] = Context1]

\* metadata that is not text, no sub-questions
RecPlainMeta ==
    [RecNested EXCEPT !["answer_type"] = PyInt(1),
                      !["previous_answer_type"] = PyInt(0),
                      !["reasoning_type"] = PyNone,
                      !["question_decomposition"] = PyList(<<>>)]

Restrict(f, S) == [k \in S |-> f[k]]

MapperInputs ==
    { RecText, RecNested, RecPlainMeta,
      [RecText EXCEPT !["question_decomposition"] = Decomp2],
      [RecNested EXCEPT !["question_decomposition"] = Decomp2],
      RecText @@ ("extra" :> PyStr("note")),
      RecNested @@ ("extra" :> PyStr("note")),
      RecPlainMeta @@ ("extra" :> PyInt(5)),
      Restrict(RecText, DOMAIN RecText \ {"reasoning_type"}),
      Restrict(RecNested, {"question", "answer", "no_of_hops"}) }

InitM ==
    /\ IdleT
    /\ IdleD
    /\ m_pc = "ready"
    /\ m_variant = "none"
    /\ m_item \in MapperInputs
    /\ m_pat \in Patterns
    /\ m_res = NoMap

MapV3 ==
    /\ m_pc = "ready"
    /\ m_pc' = "done"
    /\ m_variant' = "v3"
    /\ m_res' = translated_item(m_item, m_pat)
    /\ m_item' = ItemAfter("v3", m_item, m_pat)
    /\ UNCHANGED m_pat
    /\ UNCHANGED <<tvars, dvars>>

MapBn ==
    /\ m_pc = "ready"
    /\ m_pc' = "done"
    /\ m_variant' = "bn"
    /\ m_res' = translated_item_bn(m_item, m_pat)
    /\ m_item' = ItemAfter("bn", m_item, m_pat)
    /\ UNCHANGED m_pat
    /\ UNCHANGED <<tvars, dvars>>

MapV4 ==
    /\ m_pc = "ready"
    /\ m_pc' = "done"
    /\ m_variant' = "v4"
    /\ m_res' = translate_item(m_item, m_pat)
    /\ m_item' = ItemAfter("v4", m_item, m_pat)
    /\ UNCHANGED m_pat
    /\ UNCHANGED <<tvars, dvars>>

NextM == MapV3 \/ MapBn \/ MapV4

SpecM == InitM /\ [][NextM]_vars

\* the mapping returned a record
Mapped == m_pc = "done" /\ m_res.err = ""

\* C6: whatever the input record (fields outside the known schema included),
\* the record a mapper returns has exactly the keys of its input.  The dict
\* literals of v2/v3 and of the first script have a fixed key list.
C6_KeySetPreserved ==
    Mapped => DOMAIN m_res.val = DOMAIN m_item

\* C7: the mappers of v3 and v4 return answer_type, previous_answer_type,
\* no_of_hops and reasoning_type as they were, whatever their type (text
\* included), and never invoke the service on them.  translate_item of v4
\* translates every top-level value that is a str.
C7_MetadataVerbatim ==
    (Mapped /\ m_variant \in {"v3", "v4"})
        => \A k \in Metadata \cap DOMAIN m_item :
              /\ k \in DOMAIN m_res.val
              /\ m_res.val[k] = m_item[k]
              /\ <<k, 0, "">> \notin m_res.called

\* what the script's translate function returns for the leaf at path
TranslateOf(variant, text, pat, path) ==
    Translate(variant, text, OutcomesAt(pat, path, text)).ret

\* C14: the decomposition list a mapper of v3 or v4 returns is as long as
\* the input list; its j-th item has the j-th input item's sub_id as it was
\* and question, answer and paragraph_support_title equal to what the
\* translate function returns for the j-th input item's values; for an
\* empty list the service is not invoked for the decomposition.
C14_DecompositionMappedItemwise ==
    (/\ Mapped
     /\ m_variant \in {"v3", "v4"}
     /\ "question_decomposition" \in DOMAIN m_item
     /\ m_item["question_decomposition"].kind = "list")
        => /\ m_res.val["question_decomposition"].kind = "list"
           /\ Len(m_res.val["question_decomposition"].val)
                 = Len(m_item["question_decomposition"].val)
           /\ \A j \in DOMAIN m_item["question_decomposition"].val :
                 /\ m_res.val["question_decomposition"].val[j].val["sub_id"]
                       = m_item["question_decomposition"].val[j].val["sub_id"]
                 /\ \A k \in {"question", "answer", "paragraph_support_title"} :
                       m_res.val["question_decomposition"].val[j].val[k]
                         = TranslateOf(m_variant,
                                       m_item["question_decomposition"].val[j].val[k],
                                       m_pat, <<"question_decomposition", j, k>>)
           /\ m_item["question_decomposition"].val = <<>>
                 => /\ m_res.val["question_decomposition"].val = <<>>
                    /\ \A c \in m_res.called : c[1] # "question_decomposition"

C14_Witness ==
    /\ Mapped
    /\ m_variant = "v3"
    /\ m_pat = <<TRUE>>
    /\ m_item["question_decomposition"] = Decomp2
    /\ m_res.val["question_decomposition"].val[1].val["question"] = PyStr("bn:X")
    /\ m_res.val["question_decomposition"].val[2].val["question"] = PyStr("bn:X2")
    /\ m_res.val["question_decomposition"].val[2].val["sub_id"] = PyStr("q2")
    /\ m_res.val["question_decomposition"].val[2].val["paragraph_support_title"] = PyStr("")

\* C15: for a record whose context is {title, paragraphs}, the context a
\* mapper of v3 or v4 returns is a dict whose title is what the translate
\* function returns for the input title and whose paragraphs are, position
\* by position, what it returns for the input paragraphs.  v2/v3 pass the
\* whole context to translate_text as one value (after str() of a list in
\* download_dataset of v3) and get one string back.
C15_ContextMappedStructurally ==
    (/\ Mapped
     /\ m_variant \in {"v3", "v4"}
     /\ "context" \in DOMAIN m_item
     /\ m_item["context"].kind = "dict")
        => /\ m_res.val["context"].kind = "dict"
           /\ m_res.val["context"].val["title"]
                 = TranslateOf(m_variant, m_item["context"].val["title"], m_pat,
                               <<"context", 0, "title">>)
           /\ m_res.val["context"].val["paragraphs"].kind = "list"
           /\ Len(m_res.val["context"].val["paragraphs"].val)
                 = Len(m_item["context"].val["paragraphs"].val)
           /\ \A p \in DOMAIN m_item["context"].val["paragraphs"].val :
                 m_res.val["context"].val["paragraphs"].val[p]
                   = TranslateOf(m_variant, m_item["context"].val["paragraphs"].val[p],
                                 m_pat, <<"context", p, "paragraphs">>)

\* C16: in the record a mapper of v3 or of the first script returns, each
\* of question, answer, previous_question, previous_answer and
\* question_on_last_hop is what the translate function returns for the
\* input record's value of that field.  The literal of the first script has
\* no entry question_on_last_hop.
C16_ScalarTextTranslated ==
    (Mapped /\ m_variant \in {"v3", "bn"})
        => \A k \in {"question", "answer", "previous_question", "previous_answer",
                     "question_on_last_hop"} \cap DOMAIN m_item :
              /\ k \in DOMAIN m_res.val
              /\ m_res.val[k] = TranslateOf(m_variant, m_item[k], m_pat, <<k, 0, "">>)

\* the fields of the schema
KnownFields == ScalarText \cup Metadata \cup {"question_decomposition"}

\* C17: a field of the input record that is not a field of the schema is in
\* the record a mapper of v3 or v4 returns, with the value it had, and the
\* service is not invoked on it.  The literal of v2/v3 has no entry for it;
\* translate_item of v4 translates it when it is a str.
C17_UnknownFieldVerbatim ==
    (Mapped /\ m_variant \in {"v3", "v4"})
        => \A k \in DOMAIN m_item \ KnownFields :
              /\ k \in DOMAIN m_res.val
              /\ m_res.val[k] = m_item[k]
              /\ <<k, 0, "">> \notin m_res.called

-----------------------------------------------------------------------------
(* The driver: translate_and_push_dataset of v2 and v3, download_dataset    *)
(* and push_to_hub of translate_v4.py (which keeps no checkpoints), the     *)
(* directory checkpoints/, the hub, and the process being killed and        *)
(* started again.                                                           *)

\* CHECKPOINT_INTERVAL is 100 in v3 and 50 in v2; the model scales it down
CHECKPOINT_INTERVAL == 2

MaxRecords == 4

MaxRuns == 2

\* str(value) of a value of the JSON file
ReprKeys == <<"sub_id", "question", "answer", "paragraph_support_title", "title", "paragraphs">>

RECURSIVE PyRepr(_)
RECURSIVE ReprSeq(_, _)
RECURSIVE ReprDict(_, _, _)
PyRepr(v) ==
    CASE v.kind = "str" -> "'" \o v.val \o "'"
      [] v.kind = "none" -> "None"
      [] v.kind = "int" -> ToString(v.val)
      [] v.kind = "list" -> "[" \o ReprSeq(v.val, 1) \o "]"
      [] v.kind = "dict" -> "{" \o ReprDict(v.val, 1, TRUE) \o "}"

ReprSeq(items, i) ==
    IF i > Len(items) THEN ""
    ELSE (IF i > 1 THEN ", " ELSE "") \o PyRepr(items[i]) \o ReprSeq(items, i + 1)

ReprDict(f, i, first) ==
    IF i > Len(ReprKeys) THEN ""
    ELSE IF ReprKeys[i] \notin DOMAIN f THEN ReprDict(f, i + 1, first)
    ELSE (IF first THEN "" ELSE ", ") \o "'" \o ReprKeys[i] \o "': "
         \o PyRepr(f[ReprKeys[i]]) \o ReprDict(f, i + 1, FALSE)

\* processed_item testing isinstance(value, (list, dict)) at the top level
\* too: a mapping-valued field becomes a string
processed_item_strdicts(item) ==
    [key \in DOMAIN item |->
        IF item[key].kind \in {"list", "dict"}
        THEN IF key = "question_decomposition" /\ item[key].kind = "list"
             THEN PyList([j \in DOMAIN item[key].val |->
                      PyDict([k \in DOMAIN item[key].val[j].val |->
                          IF item[key].val[j].val[k].kind \in {"list", "dict"}
                          THEN PyStr(PyRepr(item[key].val[j].val[k]))
                          ELSE item[key].val[j].val[k]])])
             ELSE PyStr(PyRepr(item[key]))
        ELSE item[key]]

\* "Convert nested lists to strings before creating dataset" (v3 98-115)
processed_item(item) ==
    [key \in DOMAIN item |->
        IF item[key].kind = "list"
        THEN IF key = "question_decomposition"
             THEN PyList([j \in DOMAIN item[key].val |->
                      PyDict([k \in DOMAIN item[key].val[j].val |->
                          IF item[key].val[j].val[k].kind \in {"list", "dict"}
                          THEN PyStr(PyRepr(item[key].val[j].val[k]))
                          ELSE item[key].val[j].val[k]])])
             ELSE PyStr(PyRepr(item[key]))
        ELSE item[key]]

\* processed_data once the loop `for item in data` has ended
processed_data(data) == [i \in 1..Len(data) |-> processed_item(data[i])]

\* download_dataset handing the records over last first
download_dataset_reversed(variant, data) ==
    IF variant = "v3"
    THEN [i \in 1..Len(data) |-> processed_item(data[Len(data) + 1 - i])]
    ELSE [i \in 1..Len(data) |-> data[Len(data) + 1 - i]]

\* download_dataset: v3 preprocesses every item, v2 and v4 take the JSON
\* array as it is
download_dataset(variant, data) ==
    IF variant = "v3"
    THEN [i \in 1..Len(data) |-> processed_item(data[i])]
    ELSE data

\* json.dump / json.load of a value
RECURSIVE JsonValue(_)
JsonValue(v) ==
    CASE v.kind = "str" -> [kind |-> "string", val |-> v.val]
      [] v.kind = "none" -> [kind |-> "null", val |-> ""]
      [] v.kind = "int" -> [kind |-> "number", val |-> v.val]
      [] v.kind = "list" ->
            [kind |-> "array", val |-> [i \in DOMAIN v.val |-> JsonValue(v.val[i])]]
      [] v.kind = "dict" ->
            [kind |-> "object", val |-> [k \in DOMAIN v.val |-> JsonValue(v.val[k])]]

\* json.dump(translated_data, f): the text of a completely written file, one
\* JSON object per record between "[" and "]"
json_dump(data) ==
    [recs |-> [i \in 1..Len(data) |-> JsonValue(PyDict(data[i]))], closed |-> TRUE]

\* the text on disk when the write stops after j objects: no closing "]"
Truncated(text, j) == [recs |-> SubSeq(text.recs, 1, j), closed |-> FALSE]

\* os.path.join(checkpoint_dir, f"checkpoint_{checkpoint_num}.json") in v3,
\* f"checkpoint_{checkpoint_num}_{timestamp}.json" in v2
checkpoint_path(variant, checkpoint_num, now) ==
    IF variant = "v2"
    THEN "checkpoints/checkpoint_" \o ToString(checkpoint_num) \o "_" \o ToString(now) \o ".json"
    ELSE "checkpoints/checkpoint_" \o ToString(checkpoint_num) \o ".json"

\* a file of checkpoints/: its path, the index its name embeds, its text
File(path, num, text) == [path |-> path, num |-> num, text |-> text]

\* open(checkpoint_path, 'w') replaces a file of that path
WriteFile(st, f) == {g \in st : g.path # f.path} \cup {f}

\* save_checkpoint with the record appended last missing from the dump
save_checkpoint_stale(st, variant, data, checkpoint_num, now) ==
    WriteFile(st, File(checkpoint_path(variant, checkpoint_num, now), checkpoint_num,
                       json_dump(SubSeq(data, 1, Len(data) - 1))))

\* save_checkpoint run to its end
save_checkpoint(st, variant, data, checkpoint_num, now) ==
    WriteFile(st, File(checkpoint_path(variant, checkpoint_num, now), checkpoint_num,
                       json_dump(data)))

\* save_checkpoint stopped inside json.dump after j objects, by the process
\* being killed or by the write raising
save_checkpoint_cut(st, variant, data, checkpoint_num, now, j) ==
    WriteFile(st, File(checkpoint_path(variant, checkpoint_num, now), checkpoint_num,
                       Truncated(json_dump(data), j)))

\* if idx % CHECKPOINT_INTERVAL == 0
checkpoint_due_before(i) == i % CHECKPOINT_INTERVAL = 0

\* if (idx + 1) % CHECKPOINT_INTERVAL == 0, i the enumerate index
checkpoint_due(i) == (i + 1) % CHECKPOINT_INTERVAL = 0

\* the service during one run: every call returns, every call raises, or of
\* the calls made for one record the first returns and the next three raise
ServiceModes == {"up", "down", "flaky"}

PatFor(s) ==
    CASE s = "up" -> <<TRUE>>
      [] s = "down" -> <<FALSE>>
      [] s = "flaky" -> <<TRUE, FALSE, FALSE, FALSE>>

\* source records: every text is empty but the ones named here; record i is
\* told from the others by its question and answer
SrcRec(i) ==
    [k \in ScalarText \cup Metadata \cup {"question_decomposition"} |->
        CASE k = "question" -> PyStr("q" \o ToString(i))
          [] k = "answer" -> PyStr("a" \o ToString(i))
          [] k = "context" ->
                IF i % 2 = 0 THEN PyList(<<PyStr("T"), PyList(<<PyStr("p")>>)>>)
                ELSE PyStr("")
          [] k = "question_decomposition" ->
                IF i % 2 = 0
                THEN PyList(<<PyDict([kk \in {"sub_id", "question", "answer",
                                              "paragraph_support_title"} |->
                                 CASE kk = "sub_id" -> PyStr("s1")
                                   [] kk = "question" -> PyStr("sq")
                                   [] kk = "answer" -> PyStr("")
                                   [] OTHER -> PyNone])>>)
                ELSE PyList(<<>>)
          [] k = "previous_answer" -> PyNone
          [] k = "no_of_hops" -> PyInt(2)
          [] k = "answer_type" -> PyStr("person")
          [] k \in Metadata -> PyNone
          [] OTHER -> PyStr("")]

\* the same record with the context translate_v4.py expects
NestedRec(i) ==
    [SrcRec(i) EXCEPT !["context"] =
        PyDict([k \in {"title", "paragraphs"} |->
                  IF k = "title" THEN PyStr("T") ELSE PyList(<<PyStr("p")>>)])]

\* the record the script is written for
GoodRec(variant, i) == IF variant = "v4" THEN NestedRec(i) ELSE SrcRec(i)

\* a decomposition list whose items lack the key answer
WithoutAnswer(decomp) ==
    PyList([j \in DOMAIN decomp.val |->
               PyDict(Restrict(decomp.val[j].val, DOMAIN decomp.val[j].val \ {"answer"}))])

\* a record that lacks a key the mapper reads: when it has a decomposition
\* item, the item lacks answer; otherwise the record lacks reasoning_type
\* (v2/v3) or its context lacks title (v4)
BadRec(variant, i) ==
    IF GoodRec(variant, i)["question_decomposition"].val # <<>>
    THEN [GoodRec(variant, i) EXCEPT
             !["question_decomposition"] = WithoutAnswer(@)]
    ELSE IF variant = "v4"
         THEN [GoodRec(variant, i) EXCEPT
                  !["context"] = PyDict(Restrict(@.val, {"paragraphs"}))]
         ELSE Restrict(GoodRec(variant, i), DOMAIN GoodRec(variant, i) \ {"reasoning_type"})

MkSource(variant, n, bad) ==
    [i \in 1..n |-> IF i = bad THEN BadRec(variant, i) ELSE GoodRec(variant, i)]

Sources(variant) == UNION {{MkSource(variant, n, bad) : bad \in 0..n} : n \in 0..MaxRecords}

Scripts == {"v2", "v3", "v4"}

\* the mapper the script applies to one record
MapItem(variant, item, pat) ==
    IF variant = "v4" THEN translate_item(item, pat) ELSE translated_item(item, pat)

Init ==
    /\ IdleT
    /\ IdleM
    /\ script \in Scripts
    /\ source \in Sources(script)
    /\ svc \in ServiceModes
    /\ pc = "start"
    /\ dataset = <<>>
    /\ translated_data = <<>>
    /\ idx = 0
    /\ store = {}
    /\ clock = 0
    /\ run = 1
    /\ hub = <<>>
    /\ saveLog = <<>>
    /\ mapped = <<>>
    /\ resumeFrom = 0

\* the greatest index among the completely written files, 0 if there is none
LatestIndex(st) ==
    IF \E f \in st : f.text.closed
    THEN CHOOSE n \in {f.num : f \in {g \in st : g.text.closed}} :
             \A f \in st : f.text.closed => f.num <= n
    ELSE 0

\* dataset = self.download_dataset(); self.create_translator();
\* translated_data = []
Download ==
    /\ pc = "start"
    /\ pc' = "running"
    /\ dataset' = download_dataset(script, source)
    /\ translated_data' = <<>>
    /\ idx' = 0
    /\ resumeFrom' = LatestIndex(store)
    /\ UNCHANGED <<script, source, svc, store, clock, run, hub, saveLog, mapped>>
    /\ UNCHANGED <<tvars, mvars>>

\* download_dataset or create_translator raises: logged and raised again
StartFails ==
    /\ pc = "start"
    /\ pc' = "failed"
    /\ UNCHANGED <<script, source, svc, dataset, translated_data, idx, store, clock,
                   run, hub, saveLog, mapped, resumeFrom>>
    /\ UNCHANGED <<tvars, mvars>>

\* TranslateRecord without translated_data.append(translated_item)
TranslateRecord_noappend ==
    /\ pc = "running"
    /\ idx < Len(dataset)
    /\ MapItem(script, dataset[idx + 1], PatFor(svc)).err = ""
    /\ idx' = idx + 1
    /\ mapped' = Append(mapped, idx + 1)
    /\ UNCHANGED <<script, source, svc, pc, dataset, translated_data, store, clock,
                   run, hub, saveLog, resumeFrom>>
    /\ UNCHANGED <<tvars, mvars>>

\* one iteration of the translation loop, save_checkpoint included
TranslateRecord ==
    /\ pc = "running"
    /\ idx < Len(dataset)
    /\ LET r == MapItem(script, dataset[idx + 1], PatFor(svc)) IN
          /\ r.err = ""
          /\ translated_data' = Append(translated_data, r.val)
          /\ IF script # "v4" /\ checkpoint_due(idx)
             THEN /\ store' = save_checkpoint(store, script,
                                              Append(translated_data, r.val),
                                              idx + 1, clock)
                  /\ saveLog' = Append(saveLog, idx + 1)
             ELSE UNCHANGED <<store, saveLog>>
    /\ idx' = idx + 1
    /\ mapped' = Append(mapped, idx + 1)
    /\ UNCHANGED <<script, source, svc, pc, dataset, clock, run, hub, resumeFrom>>
    /\ UNCHANGED <<tvars, mvars>>

\* the mapper raises (a missing key): except Exception logs and raises
RecordRaises ==
    /\ pc = "running"
    /\ idx < Len(dataset)
    /\ MapItem(script, dataset[idx + 1], PatFor(svc)).err # ""
    /\ pc' = "failed"
    /\ UNCHANGED <<script, source, svc, dataset, translated_data, idx, store, clock,
                   run, hub, saveLog, mapped, resumeFrom>>
    /\ UNCHANGED <<tvars, mvars>>

\* an iteration whose save_checkpoint raises (makedirs or open fails: nothing
\* written; the write fails: a cut file): except Exception logs and raises
SaveFails ==
    /\ pc = "running"
    /\ idx < Len(dataset)
    /\ script # "v4"
    /\ checkpoint_due(idx)
    /\ LET r == MapItem(script, dataset[idx + 1], PatFor(svc)) IN
          /\ r.err = ""
          /\ translated_data' = Append(translated_data, r.val)
          /\ \/ store' = store
             \/ \E j \in 0..(idx + 1) :
                   store' = save_checkpoint_cut(store, script,
                                                Append(translated_data, r.val),
                                                idx + 1, clock, j)
    /\ saveLog' = Append(saveLog, idx + 1)
    /\ idx' = idx + 1
    /\ mapped' = Append(mapped, idx + 1)
    /\ pc' = "failed"
    /\ UNCHANGED <<script, source, svc, dataset, clock, run, hub, resumeFrom>>
    /\ UNCHANGED <<tvars, mvars>>

\* an iteration during whose save_checkpoint the process is killed, after
\* open() and before json.dump has written everything
KillDuringSave ==
    /\ pc = "running"
    /\ idx < Len(dataset)
    /\ script # "v4"
    /\ checkpoint_due(idx)
    /\ LET r == MapItem(script, dataset[idx + 1], PatFor(svc)) IN
          /\ r.err = ""
          /\ translated_data' = Append(translated_data, r.val)
          /\ \E j \in 0..(idx + 1) :
                store' = save_checkpoint_cut(store, script,
                                             Append(translated_data, r.val),
                                             idx + 1, clock, j)
    /\ saveLog' = Append(saveLog, idx + 1)
    /\ idx' = idx + 1
    /\ mapped' = Append(mapped, idx + 1)
    /\ pc' = "killed"
    /\ UNCHANGED <<script, source, svc, dataset, clock, run, hub, resumeFrom>>
    /\ UNCHANGED <<tvars, mvars>>

\* the process is killed between two steps
Kill ==
    /\ pc \in {"start", "running"}
    /\ pc' = "killed"
    /\ UNCHANGED <<script, source, svc, dataset, translated_data, idx, store, clock,
                   run, hub, saveLog, mapped, resumeFrom>>
    /\ UNCHANGED <<tvars, mvars>>

\* Publish not waiting for the loop to end
Publish_early ==
    /\ pc = "running"
    /\ idx <= Len(dataset)
    /\ hub' = Append(hub, translated_data)
    /\ pc' = "completed"
    /\ UNCHANGED <<script, source, svc, dataset, translated_data, idx, store, clock,
                   run, saveLog, mapped, resumeFrom>>
    /\ UNCHANGED <<tvars, mvars>>

\* after the loop: Dataset.from_list, push_to_hub, upload_file all succeed
Publish ==
    /\ pc = "running"
    /\ idx = Len(dataset)
    /\ hub' = Append(hub, translated_data)
    /\ pc' = "completed"
    /\ UNCHANGED <<script, source, svc, dataset, translated_data, idx, store, clock,
                   run, saveLog, mapped, resumeFrom>>
    /\ UNCHANGED <<tvars, mvars>>

\* push_to_hub raises: nothing reaches the hub
PublishFails ==
    /\ pc = "running"
    /\ idx = Len(dataset)
    /\ pc' = "failed"
    /\ UNCHANGED <<script, source, svc, dataset, translated_data, idx, store, clock,
                   run, hub, saveLog, mapped, resumeFrom>>
    /\ UNCHANGED <<tvars, mvars>>

\* push_to_hub succeeds and upload_file of the README raises
CardUploadFails ==
    /\ pc = "running"
    /\ script # "v4"
    /\ idx = Len(dataset)
    /\ hub' = Append(hub, translated_data)
    /\ pc' = "failed"
    /\ UNCHANGED <<script, source, svc, dataset, translated_data, idx, store, clock,
                   run, saveLog, mapped, resumeFrom>>
    /\ UNCHANGED <<tvars, mvars>>

\* the script is started again: a new process, the same directory and hub
Restart ==
    /\ pc \in {"killed", "failed"}
    /\ run < MaxRuns
    /\ run' = run + 1
    /\ pc' = "start"
    /\ dataset' = <<>>
    /\ translated_data' = <<>>
    /\ idx' = 0
    /\ saveLog' = <<>>
    /\ mapped' = <<>>
    /\ resumeFrom' = 0
    /\ \E c \in {clock, clock + 1} : clock' = c
    /\ UNCHANGED <<script, source, svc, store, hub>>
    /\ UNCHANGED <<tvars, mvars>>

Next ==
    \/ Download
    \/ StartFails
    \/ TranslateRecord
    \/ RecordRaises
    \/ SaveFails
    \/ KillDuringSave
    \/ Kill
    \/ Publish
    \/ PublishFails
    \/ CardUploadFails
    \/ Restart

Spec == Init /\ [][Next]_vars

\* json.load of what json.dump wrote
RECURSIVE PyValue(_)
PyValue(j) ==
    CASE j.kind = "string" -> PyStr(j.val)
      [] j.kind = "null" -> PyNone
      [] j.kind = "number" -> PyInt(j.val)
      [] j.kind = "array" -> PyList([i \in DOMAIN j.val |-> PyValue(j.val[i])])
      [] j.kind = "object" -> PyDict([k \in DOMAIN j.val |-> PyValue(j.val[k])])

\* the records a completely written checkpoint file decodes to
json_load(text) == [i \in 1..Len(text.recs) |-> PyValue(text.recs[i]).val]

\* the checkpoints a load can return: the completely written files of the
\* greatest index
LoadCandidates(st) == {f \in st : f.text.closed /\ f.num = LatestIndex(st)}

\* what an uninterrupted run produces from src when the service is in mode m
Reference(variant, src, m) ==
    [i \in 1..Len(src) |->
        MapItem(variant, download_dataset(variant, src)[i], PatFor(m)).val]

\* C1: with one deterministic service in every run, a run restarted after a
\* checkpoint at index i > 0 was persisted maps only the records at the
\* (0-based) positions i and later, and what it publishes is what an
\* uninterrupted run produces.  The scripts never read checkpoints/: a
\* restarted run maps every record again from position 0.
C1_ResumeEquivalence ==
    (run > 1 /\ resumeFrom > 0)
        => /\ \A k \in 1..Len(mapped) : mapped[k] > resumeFrom
           /\ pc = "completed" => hub[Len(hub)] = Reference(script, source, svc)

\* C2: when the job starts its loop, if a checkpoint is persisted the
\* progress index is the greatest persisted index and the accumulated list is
\* that checkpoint's records; otherwise the index is 0 and the list empty.
\* The scripts always start from translated_data = [] at index 0.
C2_SeededFromLatestCheckpoint ==
    (pc = "running" /\ mapped = <<>>)
        => IF LatestIndex(store) > 0
           THEN /\ idx = LatestIndex(store)
                /\ \E f \in LoadCandidates(store) : translated_data = json_load(f.text)
           ELSE idx = 0 /\ translated_data = <<>>

C9_NoPartialCheckpointOnDisk ==
    \A f \in store : f.text.closed

\* C10: in every state of a run of v2 or v3, save_checkpoint has been called exactly
\* once for each positive multiple of CHECKPOINT_INTERVAL reached by the
\* number of processed records, in increasing order, with that number as
\* index, and for nothing else; n records give n \div CHECKPOINT_INTERVAL saves.
C10_SaveEveryInterval ==
    script \in {"v2", "v3"}
        => /\ saveLog = [j \in 1..(idx \div CHECKPOINT_INTERVAL) |->
                            j * CHECKPOINT_INTERVAL]
           /\ pc = "completed" => Len(saveLog) = Len(dataset) \div CHECKPOINT_INTERVAL

C10_Witness ==
    /\ pc = "completed"
    /\ Len(dataset) = 2 * CHECKPOINT_INTERVAL
    /\ idx = Len(dataset)
    /\ saveLog = <<CHECKPOINT_INTERVAL, 2 * CHECKPOINT_INTERVAL>>

\* the record lacks a key its script's mapper reads: a key of the dict
\* literal (v2/v3), a key of context (v4), a key of a decomposition item
LacksField(variant, rec) ==
    \/ /\ variant # "v4"
       /\ \E i \in DOMAIN FieldOrderV3 : FieldOrderV3[i] \notin DOMAIN rec
    \/ /\ variant = "v4"
       /\ "context" \in DOMAIN rec
       /\ rec["context"].kind = "dict"
       /\ \E i \in DOMAIN ContextOrder : ContextOrder[i] \notin DOMAIN rec["context"].val
    \/ /\ "question_decomposition" \in DOMAIN rec
       /\ rec["question_decomposition"].kind = "list"
       /\ \E j \in DOMAIN rec["question_decomposition"].val :
             /\ rec["question_decomposition"].val[j].kind = "dict"
             /\ \E i \in DOMAIN SubOrder :
                   SubOrder[i] \notin DOMAIN rec["question_decomposition"].val[j].val

\* the position of the first record of the source that lacks a field, 0 if
\* there is none
FirstLacking ==
    IF \E i \in DOMAIN source : LacksField(script, source[i])
    THEN CHOOSE i \in DOMAIN source :
             /\ LacksField(script, source[i])
             /\ \A j \in DOMAIN source : LacksField(script, source[j]) => i <= j
    ELSE 0

C13_SaveFailureDoesNotFailTheJob ==
    [][(pc = "running" /\ saveLog' # saveLog) => pc' # "failed"]_vars

\* C18: a completely written checkpoint file is never touched again: every
\* step leaves it in checkpoints/ with the text it had.  v3 names the file
\* by the index alone and v2 by index and second, and both open it with
\* 'w': a later run that reaches the index again (in v2 within the same
\* second) truncates and rewrites the file.
C18_CheckpointNeverRewritten ==
    [][\A f \in store : f.text.closed => f \in store']_vars

SourceItem(i) == IF script = "v3" THEN processed_item(source[i]) ELSE source[i]

\* C20: in every state of a run the records mapped so far are those at the
\* positions 1, 2, ..., idx in that order, each once, and translated_data
\* holds at position i the mapped result of the source record at position
\* i; at completion idx is the length of the source and the collection
\* pushed is translated_data.
C20_SourceOrderPreserved ==
    pc \in {"running", "completed"}
        => /\ mapped = [i \in 1..idx |-> i]
           /\ Len(translated_data) = idx
           /\ \A i \in 1..idx :
                 translated_data[i] = MapItem(script, SourceItem(i), PatFor(svc)).val
           /\ pc = "completed"
                 => /\ idx = Len(source)
                    /\ hub[Len(hub)] = translated_data

C20_Witness ==
    /\ pc = "completed"
    /\ script = "v4"
    /\ svc = "up"
    /\ Len(source) = MaxRecords
    /\ mapped = [i \in 1..MaxRecords |-> i]
    /\ \A i \in 1..MaxRecords :
          hub[1][i]["question"] = PyStr("bn:q" \o ToString(i))

\* C22: in every state of the driver the number of records processed equals
\* the length of translated_data and of the list of mapped positions and is
\* at most the length of the source; within one process it never decreases,
\* it changes exactly when a record is mapped, and then by one, one record
\* being appended to translated_data.
C22_ProgressIndexCountsRecords ==
    /\ [](/\ idx = Len(translated_data)
          /\ idx = Len(mapped)
          /\ idx <= Len(source))
    /\ [][run' = run
            => /\ idx' >= idx
               /\ (idx' # idx) <=> (mapped' # mapped)
               /\ idx' # idx
                     => /\ idx' = idx + 1
                        /\ mapped' = Append(mapped, idx + 1)
                        /\ SubSeq(translated_data', 1, idx) = translated_data]_vars

C22_Witness ==
    /\ script = "v3"
    /\ pc = "running"
    /\ run = 1
    /\ Len(source) = MaxRecords
    /\ idx = MaxRecords - 1
    /\ Len(translated_data) = MaxRecords - 1
    /\ mapped = [i \in 1..(MaxRecords - 1) |-> i]

-----------------------------------------------------------------------------
(* SpecLive: one run of the driver in which the process is not killed and  *)
(* the dataset store, the disk and the hub do not fail.  Every service     *)
(* call returns or raises and every sleep ends, so a step that is enabled  *)
(* is eventually taken.                                                    *)

NextLive ==
    \/ Download
    \/ TranslateRecord
    \/ RecordRaises
    \/ Publish

\* what a step of NextLive does to the position of the process: a step is
\* possible exactly when the process has started and not finished
Moves ==
    /\ pc \in {"start", "running"}
    /\ pc' \in {"running", "completed", "failed"}
    /\ idx' \in {idx, idx + 1}

SpecLive == Init /\ [][NextLive]_vars /\ WF_<<pc, idx>>(Moves)

\* every record of src has the keys the dict literal reads
Conforming(src) == src = MkSource(script, Len(src), 0)

-----------------------------------------------------------------------------
(* SpecP: the preprocessing of download_dataset (the same code in           *)
(* src/downlaod_dataset.py, translate_to_bn.py and translate_to_bn_v3.py)   *)
(* applied to a JSON array.                                                *)

MaxItems == 3

\* a sub-question whose title is a list and whose answer is a mapping
NestedSub ==
    PyDict([k \in {"sub_id", "question", "answer", "paragraph_support_title"} |->
              CASE k = "sub_id" -> PyStr("s2")
                [] k = "question" -> PyStr("sq2")
                [] k = "answer" -> PyDict([kk \in {"title"} |-> PyStr("A")])
                [] OTHER -> PyList(<<PyStr("T1"), PyStr("T2")>>)])

\* records of the JSON file: context a list, a mapping, a string; the
\* decomposition empty, with plain and with nested entries, and null; a
\* list-valued field outside the schema
RawRecords ==
    { SrcRec(1),
      SrcRec(2),
      [NestedRec(3) EXCEPT !["question_decomposition"] =
          PyList(<<SrcRec(2)["question_decomposition"].val[1], NestedSub>>)]
        @@ ("extra" :> PyList(<<PyInt(1), PyNone>>)),
      [Restrict(SrcRec(4), {"question", "context", "question_decomposition"})
          EXCEPT !["question_decomposition"] = PyNone, !["context"] = PyList(<<>>)] }

RECURSIVE SeqsUpTo(_, _)
SeqsUpTo(S, n) ==
    IF n = 0 THEN {<<>>}
    ELSE SeqsUpTo(S, n - 1)
            \cup {Append(q, x) : q \in {r \in SeqsUpTo(S, n - 1) : Len(r) = n - 1}, x \in S}

\* the files that hold the preprocessing
Preprocessors == {"dl", "bn", "v3"}

InitP ==
    /\ IdleT
    /\ IdleM
    /\ script \in Preprocessors
    /\ source \in SeqsUpTo(RawRecords, MaxItems)
    /\ svc = "up"
    /\ pc = "start"
    /\ dataset = <<>>
    /\ translated_data = <<>>
    /\ idx = 0
    /\ store = {}
    /\ clock = 0
    /\ run = 1
    /\ hub = <<>>
    /\ saveLog = <<>>
    /\ mapped = <<>>
    /\ resumeFrom = 0

\* data = json.load(f); the loop over data; return of processed_data
Preprocess ==
    /\ pc = "start"
    /\ pc' = "loaded"
    /\ dataset' = processed_data(source)
    /\ UNCHANGED <<script, source, svc, translated_data, idx, store, clock, run, hub,
                   saveLog, mapped, resumeFrom>>
    /\ UNCHANGED <<tvars, mvars>>

NextP == Preprocess

SpecP == InitP /\ [][NextP]_vars

\* C25: what the preprocessing returns is as long as the JSON array and its
\* i-th record comes from the i-th record of the array: it has the same
\* keys; a value that is not a list is the value it was; a list under a key
\* other than question_decomposition has become one string; a list under
\* question_decomposition is a list of the same length whose j-th item is a
\* dict with the keys of the j-th input item, an entry that was a list or a
\* dict having become a string and every other entry being what it was.
C25_PreprocessingShape ==
    pc = "loaded"
        => /\ Len(dataset) = Len(source)
           /\ \A i \in DOMAIN source :
                 /\ DOMAIN dataset[i] = DOMAIN source[i]
                 /\ \A key \in DOMAIN source[i] :
                       IF source[i][key].kind # "list"
                       THEN dataset[i][key] = source[i][key]
                       ELSE IF key # "question_decomposition"
                       THEN dataset[i][key].kind = "str"
                       ELSE /\ dataset[i][key].kind = "list"
                            /\ Len(dataset[i][key].val) = Len(source[i][key].val)
                            /\ \A j \in DOMAIN source[i][key].val :
                                  /\ dataset[i][key].val[j].kind = "dict"
                                  /\ DOMAIN dataset[i][key].val[j].val
                                        = DOMAIN source[i][key].val[j].val
                                  /\ \A k \in DOMAIN source[i][key].val[j].val :
                                        IF source[i][key].val[j].val[k].kind \in {"list", "dict"}
                                        THEN dataset[i][key].val[j].val[k].kind = "str"
                                        ELSE dataset[i][key].val[j].val[k]
                                                = source[i][key].val[j].val[k]

C25_Witness ==
    /\ pc = "loaded"
    /\ script = "dl"
    /\ Len(source) = MaxItems
    /\ source[1] = SrcRec(2)
    /\ "extra" \in DOMAIN source[2]
    /\ dataset[1]["context"] = PyStr("['T', ['p']]")
    /\ dataset[2]["extra"] = PyStr("[1, None]")
    /\ dataset[2]["context"] = source[2]["context"]
    /\ dataset[2]["question_decomposition"].val[2].val["paragraph_support_title"]
          = PyStr("['T1', 'T2']")
    /\ dataset[2]["question_decomposition"].val[2].val["answer"] = PyStr("{'title': 'A'}")
    /\ dataset[2]["question_decomposition"].val[2].val["sub_id"] = PyStr("s2")

====
